---- MODULE Spec2Model ----
(***************************************************************************)
(* The interactive session lifecycle of the "cabinet" command              *)
(* (src/cabinet.js): the process-wide registry activeCollectors, the       *)
(* handlers subscribed to the client's 'interactionCreate' event, the      *)
(* expiry timers, the rendered messages, and every suspended (awaiting)    *)
(* invocation of execute and of a session's handler.                       *)
(*                                                                         *)
(* One action is one run of JavaScript between two awaits: the event loop  *)
(* runs each of them to completion before it takes the next.               *)
(***************************************************************************)
EXTENDS Integers, Sequences, FiniteSets, Bags, TLC

\* ------------------------------------------------------------ constants
PAGE_SIZE == 12
COLLECTOR_TIMEOUT == 300000

\* --------------------------------------------------------------- bounds
\* Sessions ever registered in one run.
MaxSessions == 2
\* Sessions ever registered, plus calls of execute and handler invocations
\* suspended at an await at the same time.
MaxLoad == 3
\* Calls of execute suspended at the first render at the same time.
MaxPending == 1
\* The largest result set fills MaxPages pages.
MaxPages == 3
\* The clock advances by COLLECTOR_TIMEOUT \div TicksPerTimeout at most.
TicksPerTimeout == 1

\* ---------------------------------------------------------------- inputs
\* Message ids are 1, 2, ... in the order the transport first uses them.
\* Id 0 is a message this command rendered no session under: a message of
\* some other command, or no message at all.
NoMessage == 0
Users == {"u1", "u2"}
\* interaction.member is undefined for an interaction outside a guild.
NoMember == "none"
Members == Users
\* custom_id of a component; "other" is any identifier the switch does not name.
Actions == {"first", "prev", "next", "last", "code_catalog", "other"}
\* Result-set sizes: empty, and one item more than MaxPages-1 full pages.
CardCounts == {0, (MaxPages - 1) * PAGE_SIZE + 1}
\* The number n of a page token page:<n>, p:<n> or #<n>; 0 also stands for no token.
PageArgs == 0..(MaxPages + 1)
TickMs == COLLECTOR_TIMEOUT \div TicksPerTimeout

VARIABLES
  activeCollectors, \* Map message id -> {handler, timeout}
  listeners,        \* handlers subscribed to client 'interactionCreate'
  timers,           \* pending setTimeout handles -> milliseconds left
  sessions,         \* the closures setupInteractionHandler created, in order
  messages,         \* transport: message id -> the embed's author text
  pending,          \* calls of execute awaiting client.createMessage
  invocations,      \* handler invocations suspended at an await
  fate,             \* per session: "active", "expired" or "replaced"
  elapsed,          \* per session: milliseconds its timer has been pending
  last,             \* the step just taken: its name and the event it handled
  out,              \* the requests that step sent to the transport
  records,          \* the records fetchUserCards returned to one call of execute
  options,          \* that call's options, as parseArguments built them
  result            \* that call's outcome from the fetch to the first render

vars == <<activeCollectors, listeners, timers, sessions, messages, pending,
          invocations, fate, elapsed, last, out, records, options, result>>

\* The one call of execute whose query is followed record by record.
query == <<records, options, result>>

registry == <<activeCollectors, listeners, timers, sessions, fate, elapsed>>

\* ------------------------------------------------------- pure functions
Max(a, b) == IF a >= b THEN a ELSE b
Min(a, b) == IF a <= b THEN a ELSE b
\* Math.ceil(n / d) for n >= 0, d > 0
CeilDiv(n, d) == (n + d - 1) \div d

\* The first match of /Page (\d+)\// inside targetUser.username: 0 when the
\* username holds none. User "u2" stands for a username such as "Page 2/".
PageInUsername(u) == IF u = "u2" THEN 2 ELSE 0

\* parseArguments: options.page = pageNum > 0 ? pageNum : 1 (default 1)
parsePageArg(n) == IF n > 0 THEN n ELSE 1

\* calculatePagination(cards, page) with cards.length = n.
\* page || 1 turns 0 into 1.
calculatePaginationNoFloor(n, page) ==
  LET totalPages == CeilDiv(n, PAGE_SIZE)
      currentPage == Min(IF page = 0 THEN 1 ELSE page, totalPages)
  IN [currentPage |-> currentPage, totalPages |-> totalPages]

calculatePagination(n, page) ==
  LET totalPages == Max(1, CeilDiv(n, PAGE_SIZE))
      currentPage == Max(1, Min(IF page = 0 THEN 1 ELSE page, totalPages))
  IN [currentPage |-> currentPage, totalPages |-> totalPages]

\* buildEmbed: author.name = `${username}'s Cabinet (Page c/t)`, kept as the
\* three parts the page regex can see.
buildEmbed(pagination, targetUser) ==
  [target |-> targetUser, page |-> pagination.currentPage,
   total |-> pagination.totalPages]

\* interaction.message.embeds[0]?.author?.name || '' when there is no embed.
NoText == [target |-> NoMember, page |-> 0, total |-> 0]

\* authorText.match(/Page (\d+)\//): the first match, which lies in the
\* username when the username has one; no match gives page 1.
parseCurrentPage(text) ==
  IF PageInUsername(text.target) # 0 THEN PageInUsername(text.target)
  ELSE IF text.page = 0 THEN 1
  ELSE text.page

\* calculateNewPage(interaction, totalCards)
calculateNewPage(customId, text, totalCards) ==
  LET totalPages == CeilDiv(totalCards, PAGE_SIZE)
      currentPage == parseCurrentPage(text)
  IN CASE customId = "first" -> 1
       [] customId = "prev" -> Max(1, currentPage - 1)
       [] customId = "next" -> Min(totalPages, currentPage + 1)
       [] customId = "last" -> totalPages
       [] OTHER -> currentPage

\* The handler's first line: the event is for this session's message and
\* from its owning user.
AuthorizedMessageOnly(s, m, member) == sessions[s].msg = m

Authorized(s, m, member) ==
  sessions[s].msg = m /\ member = sessions[s].author

\* ------------------------------------------------------------- effects
\* A request sent to the transport: its kind, the session whose code sent it
\* (0: execute) and the page it names (0: none). It goes to the message, or
\* to the requester, of the step that sent it.
Effect(kind, s, page) == [kind |-> kind, session |-> s, page |-> page]

Step(op, s, m, member) ==
  [op |-> op, session |-> s, msg |-> m, member |-> member]

EmptyMap == [k \in {} |-> 0]

\* What the bound MaxLoad counts.
Load == Len(sessions) + BagCardinality(pending) + BagCardinality(invocations)

\* No query is followed: the session model takes the size of each result
\* set as an input of Execute.
NoOptions == [searchTerms |-> <<>>, excludeTerms |-> <<>>, showDuplicates |-> FALSE]
NoResult == [outcome |-> "none", cards |-> <<>>]

\* The module's state when it is loaded.
NoSessions ==
  /\ activeCollectors = EmptyMap
  /\ listeners = {}
  /\ timers = EmptyMap
  /\ sessions = <<>>
  /\ messages = EmptyMap
  /\ pending = EmptyBag
  /\ invocations = EmptyBag
  /\ fate = <<>>
  /\ elapsed = <<>>
  /\ last = Step("init", 0, NoMessage, NoMember)
  /\ out = {}

Init ==
  /\ NoSessions
  /\ records = <<>>
  /\ options = NoOptions
  /\ result = NoResult

\* ------------------------------------------------- setupInteractionHandler
\* setupInteractionHandler without its clean-up of an existing entry.
setupInteractionHandlerNoCleanup(m, authorId, cards, targetUser) ==
  LET s == Len(sessions) + 1
      replaced == IF m \in DOMAIN activeCollectors
                  THEN {activeCollectors[m].handler} ELSE {}
  IN /\ sessions' = Append(sessions, [msg |-> m, author |-> authorId,
                                      cards |-> cards, target |-> targetUser])
     /\ listeners' = listeners \cup {s}
     /\ timers' = [t \in (DOMAIN timers) \cup {s} |->
                     IF t = s THEN COLLECTOR_TIMEOUT ELSE timers[t]]
     /\ activeCollectors' =
          [k \in (DOMAIN activeCollectors) \cup {m} |->
             IF k = m THEN [handler |-> s, timeout |-> s]
             ELSE activeCollectors[k]]
     /\ fate' = [x \in 1..s |->
                   IF x = s THEN "active"
                   ELSE IF x \in replaced THEN "replaced" ELSE fate[x]]
     /\ elapsed' = Append(elapsed, 0)

\* setupInteractionHandler that removes the old handler and forgets
\* clearTimeout(existing.timeout).
setupInteractionHandlerKeepsTimer(m, authorId, cards, targetUser) ==
  LET s == Len(sessions) + 1
      replaced == IF m \in DOMAIN activeCollectors
                  THEN {activeCollectors[m].handler} ELSE {}
  IN /\ sessions' = Append(sessions, [msg |-> m, author |-> authorId,
                                      cards |-> cards, target |-> targetUser])
     /\ listeners' = (listeners \ replaced) \cup {s}
     /\ timers' = [t \in (DOMAIN timers) \cup {s} |->
                     IF t = s THEN COLLECTOR_TIMEOUT ELSE timers[t]]
     /\ activeCollectors' =
          [k \in (DOMAIN activeCollectors) \cup {m} |->
             IF k = m THEN [handler |-> s, timeout |-> s]
             ELSE activeCollectors[k]]
     /\ fate' = [x \in 1..s |->
                   IF x = s THEN "active"
                   ELSE IF x \in replaced THEN "replaced" ELSE fate[x]]
     /\ elapsed' = Append(elapsed, 0)

\* A new closure (handler and timer) for message m; an existing entry for m
\* has its handler removed and its timer cleared first.
setupInteractionHandler(m, authorId, cards, targetUser) ==
  LET s == Len(sessions) + 1
      existing == IF m \in DOMAIN activeCollectors
                  THEN {activeCollectors[m]} ELSE {}
      oldHandlers == {e.handler : e \in existing}
      oldTimeouts == {e.timeout : e \in existing}
  IN /\ sessions' = Append(sessions, [msg |-> m, author |-> authorId,
                                      cards |-> cards, target |-> targetUser])
     /\ listeners' = (listeners \ oldHandlers) \cup {s}
     /\ timers' = [t \in ((DOMAIN timers) \ oldTimeouts) \cup {s} |->
                     IF t = s THEN COLLECTOR_TIMEOUT ELSE timers[t]]
     /\ activeCollectors' =
          [k \in (DOMAIN activeCollectors) \cup {m} |->
             IF k = m THEN [handler |-> s, timeout |-> s]
             ELSE activeCollectors[k]]
     /\ fate' = [x \in 1..s |->
                   IF x = s THEN "active"
                   ELSE IF x \in oldHandlers THEN "replaced" ELSE fate[x]]
     /\ elapsed' = Append(elapsed, 0)

\* ------------------------------------------------------------------ execute
\* execute from its start to the await of the first render: the registration
\* check, parseArguments, the target's resolution, fetchUserCards,
\* processCards and calculatePagination touch no shared state. The
\* collaborators' answers are inputs: isRegistered, whether a mentioned target
\* resolves, the fetch (fetched = -1: it throws; else the number of records)
\* and the query (processed = -1: it throws; else the size of the result set).
Execute(authorId, isRegistered, target, resolves, fetched, processed, pageArg) ==
  /\ BagCardinality(pending) < MaxPending
  /\ Len(sessions) + BagCardinality(pending) < MaxSessions
  /\ Load < MaxLoad
  /\ UNCHANGED <<registry, messages, invocations, query>>
  /\ IF ~isRegistered
     THEN /\ last' = Step("registration_required", 0, NoMessage, authorId)
          /\ out' = {Effect("reply", 0, 0)}
          /\ UNCHANGED pending
     ELSE IF target # authorId /\ ~resolves
     THEN /\ last' = Step("user_not_found", 0, NoMessage, authorId)
          /\ out' = {Effect("reply", 0, 0)}
          /\ UNCHANGED pending
     ELSE IF fetched = -1
     THEN /\ last' = Step("fetch_failed", 0, NoMessage, authorId)
          /\ out' = {Effect("reply", 0, 0)}
          /\ UNCHANGED pending
     ELSE IF fetched = 0
     THEN /\ last' = Step("no_cards", 0, NoMessage, authorId)
          /\ out' = {Effect("reply", 0, 0)}
          /\ UNCHANGED pending
     ELSE IF processed = -1
     THEN /\ last' = Step("query_failed", 0, NoMessage, authorId)
          /\ out' = {Effect("reply", 0, 0)}
          /\ UNCHANGED pending
     ELSE LET pagination == calculatePagination(processed, parsePageArg(pageArg))
          IN /\ pending' = pending (+) SetToBag({[author |-> authorId,
                                cards |-> processed, target |-> target,
                                text |-> buildEmbed(pagination, target)]})
             /\ last' = Step("render_sent", 0, NoMessage, authorId)
             /\ out' = {Effect("createMessage", 0, pagination.currentPage)}

\* The ids client.createMessage may answer with: a new one, or one already
\* in use (setupInteractionHandler provides for an entry that exists).
AnswerIds == (DOMAIN messages) \cup {Cardinality(DOMAIN messages) + 1}

\* client.createMessage resolves with a message whose id the transport chose:
\* the message now shows the embed, and the session is set up.
RenderResolved(r, m) ==
  /\ BagIn(r, pending)
  /\ pending' = pending (-) SetToBag({r})
  /\ messages' = [k \in (DOMAIN messages) \cup {m} |->
                    IF k = m THEN [text |-> r.text] ELSE messages[k]]
  /\ setupInteractionHandler(m, r.author, r.cards, r.target)
  /\ UNCHANGED query
  /\ last' = Step("registered", Len(sessions) + 1, m, r.author)
  /\ out' = {}
  /\ UNCHANGED invocations

\* An execute that sets the session up although the first render failed.
RenderRejectedRegisters(r) ==
  /\ BagIn(r, pending)
  /\ pending' = pending (-) SetToBag({r})
  /\ setupInteractionHandler(NoMessage, r.author, r.cards, r.target)
  /\ UNCHANGED query
  /\ last' = Step("render_failed", 0, NoMessage, r.author)
  /\ out' = {Effect("reply", 0, 0)}
  /\ UNCHANGED <<messages, invocations>>

\* client.createMessage rejects: the catch of execute reports the error.
RenderRejected(r) ==
  /\ BagIn(r, pending)
  /\ pending' = pending (-) SetToBag({r})
  /\ UNCHANGED query
  /\ last' = Step("render_failed", 0, NoMessage, r.author)
  /\ out' = {Effect("reply", 0, 0)}
  /\ UNCHANGED <<registry, messages, invocations>>

\* ------------------------------------------------------------------ handler
\* The message of an interaction as the transport delivers it: the author
\* text the message shows when the event is created.
Snapshot(m) == IF m \in DOMAIN messages THEN messages[m].text ELSE NoText

\* The handler of session s from its call to its first await, for an event it
\* accepts: the request it sends and the invocation left suspended.
HandlerRequest(s, member, action, text) ==
  IF action = "code_catalog"
  THEN Effect("defer", s, 0)
  ELSE LET newPage == calculateNewPage(action, text, sessions[s].cards)
           pagination == calculatePagination(sessions[s].cards, newPage)
       IN Effect("editParent", s, pagination.currentPage)

\* The suspended invocation keeps what its continuation still reads: the
\* requester, and for the code catalog the interaction's message text.
HandlerAwait(s, member, action, text) ==
  LET req == HandlerRequest(s, member, action, text)
  IN [session |-> s, member |-> member, pc |-> req.kind, page |-> req.page,
      text |-> IF action = "code_catalog" THEN text ELSE NoText]

\* A handler that re-arms its session's timer whenever it takes up an event.
DispatchRearms(m, member, action) ==
  LET text == Snapshot(m)
      accepting == {s \in listeners : Authorized(s, m, member)}
  IN /\ Load + Cardinality(accepting) <= MaxLoad
     /\ invocations' = invocations (+)
          SetToBag({HandlerAwait(s, member, action, text) : s \in accepting})
     /\ out' = {HandlerRequest(s, member, action, text) : s \in accepting}
     /\ UNCHANGED query
     /\ last' = Step("dispatch", 0, m, member)
     /\ timers' = [t \in DOMAIN timers |->
                     IF t \in accepting THEN COLLECTOR_TIMEOUT ELSE timers[t]]
     /\ UNCHANGED <<activeCollectors, listeners, sessions, fate, elapsed,
                    messages, pending>>

\* client.emit('interactionCreate', interaction): every subscribed handler is
\* called in turn and runs to its return or to its first await.
Dispatch(m, member, action) ==
  LET text == Snapshot(m)
      accepting == {s \in listeners : Authorized(s, m, member)}
  IN /\ Load + Cardinality(accepting) <= MaxLoad
     /\ invocations' = invocations (+)
          SetToBag({HandlerAwait(s, member, action, text) : s \in accepting})
     /\ out' = {HandlerRequest(s, member, action, text) : s \in accepting}
     /\ UNCHANGED query
     /\ last' = Step("dispatch", 0, m, member)
     /\ UNCHANGED <<registry, messages, pending>>

\* One suspended invocation moves on (to pc) or returns (pc = "done").
Resume(i, pc) ==
  (invocations (-) SetToBag({i})) (+)
    (IF pc = "done" THEN EmptyBag
     ELSE SetToBag({[i EXCEPT !.pc = pc]}))

\* The catch block: createFollowup with the generic error notice. Whether
\* that call resolves or rejects (swallowed by .catch), the handler then
\* returns without reading or writing anything: the invocation ends here.
Notice(i) == Effect("notice", i.session, 0)

\* interaction.defer(64) resolves: sendCodeCatalog reads the page from the
\* interaction's message and sends that page's codes as a private response.
DeferResolved(i) ==
  /\ BagIn(i, invocations) /\ i.pc = "defer"
  /\ invocations' = Resume(i, "createFollowup")
  /\ out' = {Effect("createFollowup", i.session, parseCurrentPage(i.text))}
  /\ UNCHANGED query
  /\ last' = Step("defer_resolved", i.session, sessions[i.session].msg, i.member)
  /\ UNCHANGED <<registry, messages, pending>>

DeferRejected(i) ==
  /\ BagIn(i, invocations) /\ i.pc = "defer"
  /\ invocations' = Resume(i, "done")
  /\ out' = {Notice(i)}
  /\ UNCHANGED query
  /\ last' = Step("defer_rejected", i.session, sessions[i.session].msg, i.member)
  /\ UNCHANGED <<registry, messages, pending>>

\* The private response of sendCodeCatalog is delivered: the handler returns.
FollowupResolved(i) ==
  /\ BagIn(i, invocations) /\ i.pc = "createFollowup"
  /\ invocations' = Resume(i, "done")
  /\ out' = {}
  /\ UNCHANGED query
  /\ last' = Step("followup_resolved", i.session, sessions[i.session].msg, i.member)
  /\ UNCHANGED <<registry, messages, pending>>

FollowupRejected(i) ==
  /\ BagIn(i, invocations) /\ i.pc = "createFollowup"
  /\ invocations' = Resume(i, "done")
  /\ out' = {Notice(i)}
  /\ UNCHANGED query
  /\ last' = Step("followup_rejected", i.session, sessions[i.session].msg, i.member)
  /\ UNCHANGED <<registry, messages, pending>>

\* interaction.editParent resolves: the message shows the new page and its
\* controls, and the handler returns.
EditResolved(i) ==
  LET s == i.session
      m == sessions[s].msg
      pagination == [currentPage |-> i.page,
                     totalPages |-> calculatePagination(sessions[s].cards, i.page).totalPages]
  IN /\ BagIn(i, invocations) /\ i.pc = "editParent"
     /\ invocations' = Resume(i, "done")
     /\ messages' = [messages EXCEPT ![m] =
                       [text |-> buildEmbed(pagination, sessions[s].target)]]
     /\ out' = {}
     /\ UNCHANGED query
     /\ last' = Step("edit_resolved", s, m, i.member)
     /\ UNCHANGED <<registry, pending>>

\* A catch block that also tears the session down when the re-render fails.
EditRejectedTearsDown(i) ==
  LET s == i.session
      m == sessions[s].msg
  IN /\ BagIn(i, invocations) /\ i.pc = "editParent"
     /\ invocations' = Resume(i, "done")
     /\ out' = {Notice(i)}
     /\ UNCHANGED query
     /\ last' = Step("edit_rejected", s, m, i.member)
     /\ listeners' = listeners \ {s}
     /\ activeCollectors' = [k \in (DOMAIN activeCollectors) \ {m} |->
                               activeCollectors[k]]
     /\ UNCHANGED <<timers, sessions, fate, elapsed, messages, pending>>

\* interaction.editParent rejects: the catch sends the notice; nothing else
\* is touched.
EditRejected(i) ==
  /\ BagIn(i, invocations) /\ i.pc = "editParent"
  /\ invocations' = Resume(i, "done")
  /\ out' = {Notice(i)}
  /\ UNCHANGED query
  /\ last' = Step("edit_rejected", i.session, sessions[i.session].msg, i.member)
  /\ UNCHANGED <<registry, messages, pending>>

\* -------------------------------------------------------------------- timer
\* The minimum of a non-empty set of numbers.
SetMin(S) == CHOOSE x \in S : \A y \in S : x <= y

\* Time passes: by TickMs, or up to the next timer's expiry if that is sooner.
\* A timer whose delay has run out fires before the clock moves on.
Tick ==
  LET left == {timers[t] : t \in DOMAIN timers}
      d == Min(TickMs, SetMin(left))
  IN /\ DOMAIN timers # {}
     /\ \A t \in DOMAIN timers : timers[t] > 0
     /\ timers' = [t \in DOMAIN timers |-> timers[t] - d]
     /\ elapsed' = [x \in 1..Len(sessions) |->
                      IF x \in DOMAIN timers THEN elapsed[x] + d ELSE elapsed[x]]
     /\ UNCHANGED query
     /\ last' = Step("tick", 0, NoMessage, NoMember)
     /\ out' = {}
     /\ UNCHANGED <<activeCollectors, listeners, sessions, fate, messages,
                    pending, invocations>>

\* The timer callback without client.removeListener.
TimerFiredKeepsListener(s) ==
  LET m == sessions[s].msg
  IN /\ s \in DOMAIN timers
     /\ timers[s] = 0
     /\ timers' = [t \in (DOMAIN timers) \ {s} |-> timers[t]]
     /\ activeCollectors' = [k \in (DOMAIN activeCollectors) \ {m} |->
                               activeCollectors[k]]
     /\ listeners' = listeners
     /\ fate' = [fate EXCEPT ![s] = "expired"]
     /\ out' = {Effect("clearControls", s, 0)}
     /\ UNCHANGED query
     /\ last' = Step("timer_fired", s, m, NoMember)
     /\ UNCHANGED <<sessions, elapsed, messages, pending, invocations>>

\* The timer callback without activeCollectors.delete and removeListener:
\* it only clears the controls.
TimerFiredKeepsSession(s) ==
  LET m == sessions[s].msg
  IN /\ s \in DOMAIN timers
     /\ timers[s] = 0
     /\ timers' = [t \in (DOMAIN timers) \ {s} |-> timers[t]]
     /\ out' = {Effect("clearControls", s, 0)}
     /\ UNCHANGED query
     /\ last' = Step("timer_fired", s, m, NoMember)
     /\ UNCHANGED <<activeCollectors, listeners, fate, sessions, elapsed,
                    messages, pending, invocations>>

\* The timer callback without activeCollectors.delete(message.id).
TimerFiredKeepsEntry(s) ==
  LET m == sessions[s].msg
  IN /\ s \in DOMAIN timers
     /\ timers[s] = 0
     /\ timers' = [t \in (DOMAIN timers) \ {s} |-> timers[t]]
     /\ listeners' = listeners \ {s}
     /\ fate' = [fate EXCEPT ![s] = "expired"]
     /\ out' = {Effect("clearControls", s, 0)}
     /\ UNCHANGED query
     /\ last' = Step("timer_fired", s, m, NoMember)
     /\ UNCHANGED <<activeCollectors, sessions, elapsed, messages, pending,
                    invocations>>

\* The callback of session s's setTimeout: delete the entry of its message,
\* remove its handler, and ask the transport to clear the controls (an edit
\* of the components alone, whose failure is swallowed; the embed stays).
TimerFired(s) ==
  LET m == sessions[s].msg
  IN /\ s \in DOMAIN timers
     /\ timers[s] = 0
     /\ timers' = [t \in (DOMAIN timers) \ {s} |-> timers[t]]
     /\ activeCollectors' = [k \in (DOMAIN activeCollectors) \ {m} |->
                               activeCollectors[k]]
     /\ listeners' = listeners \ {s}
     /\ fate' = [fate EXCEPT ![s] = "expired"]
     /\ out' = {Effect("clearControls", s, 0)}
     /\ UNCHANGED query
     /\ last' = Step("timer_fired", s, m, NoMember)
     /\ UNCHANGED <<sessions, elapsed, messages, pending, invocations>>

\* --------------------------------------------------------------------- Next
Next ==
  \/ \E a \in Users, reg \in BOOLEAN, t \in Users, res \in BOOLEAN,
        f \in CardCounts \cup {-1}, p \in CardCounts \cup {-1}, n \in PageArgs :
       /\ p <= f
       /\ (~reg => t = a)
       /\ (res <=> t = a)
       /\ ((~reg \/ ~res) => f = -1)
       /\ (f <= 0 => p = -1)
       /\ (p = -1 => n = 0)
       /\ Execute(a, reg, t, res, f, p, n)
  \/ \E r \in BagToSet(pending), m \in AnswerIds : RenderResolved(r, m)
  \/ \E r \in BagToSet(pending) : RenderRejected(r)
  \/ \E m \in (DOMAIN messages) \cup {NoMessage}, member \in Members,
        action \in Actions :
       Dispatch(m, member, action)
  \/ \E i \in BagToSet(invocations) : DeferResolved(i)
  \/ \E i \in BagToSet(invocations) : DeferRejected(i)
  \/ \E i \in BagToSet(invocations) : FollowupResolved(i)
  \/ \E i \in BagToSet(invocations) : FollowupRejected(i)
  \/ \E i \in BagToSet(invocations) : EditResolved(i)
  \/ \E i \in BagToSet(invocations) : EditRejected(i)
  \/ Tick
  \/ \E s \in 1..Len(sessions) : TimerFired(s)

Spec == Init /\ [][Next]_vars

\* Time passes while a timer is pending, and a timer whose delay has run out
\* has its callback run.
FairSpec ==
  /\ Spec
  /\ WF_vars(Tick)
  /\ \A s \in 1..MaxSessions : WF_vars(TimerFired(s))


(***************************************************************************)
(* The query of one call of execute: fetchUserCards' records through       *)
(* processCards to the outcome of the call.                                *)
(*                                                                         *)
(* A JavaScript string is the sequence of its characters; a record is a    *)
(* function from the names of the fields it has to their strings, so a     *)
(* field it lacks reads as undefined.                                      *)
(***************************************************************************)
\* The most records one fetch returns.
MaxRecords == 3

\* String.prototype.toLowerCase, over the letters the inputs use.
lowerChar(c) ==
  CASE c = "A" -> "a"
    [] c = "B" -> "b"
    [] c = "M" -> "m"
    [] OTHER -> c

toLowerCase(s) == [i \in 1..Len(s) |-> lowerChar(s[i])]

\* String.prototype.includes
includes(s, term) ==
  \E i \in 0..(Len(s) - Len(term)) : SubSeq(s, i + 1, i + Len(term)) = term

\* The sign of the lexicographic comparison of two sequences of numbers.
compareSeq(u, v) ==
  LET n == Min(Len(u), Len(v))
      diff == {i \in 1..n : u[i] # v[i]}
  IN IF diff = {}
     THEN (IF Len(u) < Len(v) THEN -1 ELSE IF Len(u) > Len(v) THEN 1 ELSE 0)
     ELSE LET i == SetMin(diff)
          IN IF u[i] < v[i] THEN -1 ELSE 1

\* String.prototype.localeCompare under the default (ICU root) collation:
\* the letters decide whatever their case; between strings of the same
\* letters the first difference of case decides, lower case first.
letterOf(c) ==
  CASE lowerChar(c) = "a" -> 1
    [] lowerChar(c) = "b" -> 2
    [] OTHER -> 3

caseOf(c) == IF lowerChar(c) = c THEN 0 ELSE 1

localeCompare(x, y) ==
  LET letters == compareSeq([i \in 1..Len(x) |-> letterOf(x[i])],
                            [i \in 1..Len(y) |-> letterOf(y[i])])
  IN IF letters # 0 THEN letters
     ELSE compareSeq([i \in 1..Len(x) |-> caseOf(x[i])],
                     [i \in 1..Len(y) |-> caseOf(y[i])])

\* card.f is a string (not undefined); card?.f is truthy (not undefined, not '').
has(card, f) == f \in DOMAIN card
truthy(card, f) == has(card, f) /\ card[f] # <<>>

\* isValidCard(card)
isValidCard(card) ==
  /\ truthy(card, "name")
  /\ truthy(card, "group")
  /\ truthy(card, "rarity")
  /\ truthy(card, "condition")

\* The fields cardMatchesTerm and matchesSearch read, in the order of their ||.
SearchFields == <<"name", "group", "rarity", "condition", "cardCode">>

\* cardMatchesTerm(card, term): "true", "false", or "throw" when the chain of
\* || reaches a field that is undefined (undefined.toLowerCase()) before a
\* field that includes the term.
cardMatchesTerm(card, term) ==
  LET stop == {i \in 1..Len(SearchFields) :
                 \/ ~has(card, SearchFields[i])
                 \/ includes(toLowerCase(card[SearchFields[i]]), term)}
  IN IF stop = {} THEN "false"
     ELSE IF has(card, SearchFields[SetMin(stop)]) THEN "true"
     ELSE "throw"

\* expandedSearchTerms.every(term => this.cardMatchesTerm(card, term)):
\* the first term that does not match, or throws, ends it.
matchesEvery(card, terms) ==
  LET stop == {i \in 1..Len(terms) : cardMatchesTerm(card, terms[i]) # "true"}
  IN IF stop = {} THEN "true" ELSE cardMatchesTerm(card, terms[SetMin(stop)])

\* matchesSearch(card, terms): terms.some over the same chain of fields.
matchesSearch(card, terms) ==
  LET stop == {i \in 1..Len(terms) : cardMatchesTerm(card, terms[i]) # "false"}
  IN IF stop = {} THEN "false" ELSE cardMatchesTerm(card, terms[SetMin(stop)])

\* Array.prototype.filter with a predicate that holds of s[i] iff keep[i].
RECURSIVE filterSeq(_, _)
filterSeq(s, keep) ==
  IF s = <<>> THEN <<>>
  ELSE LET front == filterSeq(SubSeq(s, 1, Len(s) - 1), keep)
       IN IF keep[Len(s)] THEN Append(front, s[Len(s)]) ELSE front

\* `${card.imageURL}`: the string itself, "undefined" for a field not there.
Undefined == <<"u", "n", "d", "e", "f", "i", "n", "e", "d">>
imageKey(card) == IF has(card, "imageURL") THEN card.imageURL ELSE Undefined

\* findDuplicates(cards): the keys counted more than once.
findDuplicates(cards) ==
  {k \in {imageKey(cards[i]) : i \in 1..Len(cards)} :
     Cardinality({i \in 1..Len(cards) : imageKey(cards[i]) = k}) > 1}

\* duplicates.has(card.imageURL): the Set holds strings, undefined is in none.
hasDuplicate(duplicates, card) ==
  has(card, "imageURL") /\ card.imageURL \in duplicates

\* RARITY_ORDER and CONDITION_ORDER; 0 stands for undefined (no such key).
Mythic == <<"m", "y", "t", "h", "i", "c">>
Glyph == <<"g", "l", "y", "p", "h">>
Unique == <<"u", "n", "i", "q", "u", "e">>
Standard == <<"s", "t", "a", "n", "d", "a", "r", "d">>
Pristine == <<"p", "r", "i", "s", "t", "i", "n", "e">>
Mint == <<"m", "i", "n", "t">>
Good == <<"g", "o", "o", "d">>
Worn == <<"w", "o", "r", "n">>
Damaged == <<"d", "a", "m", "a", "g", "e", "d">>

RARITY_ORDER(r) ==
  CASE r = Mythic -> 4
    [] r = Glyph -> 3
    [] r = Unique -> 2
    [] r = Standard -> 1
    [] OTHER -> 0

CONDITION_ORDER(c) ==
  CASE c = Pristine -> 1
    [] c = Mint -> 2
    [] c = Good -> 3
    [] c = Worn -> 4
    [] c = Damaged -> 5
    [] OTHER -> 0

\* x - y where 0 stands for undefined: NaN, which || takes for false as it
\* takes 0, so both read 0 here.
minus(x, y) == IF x = 0 \/ y = 0 THEN 0 ELSE x - y

\* The comparator of sortCards: the first operand of the || chain that is
\* neither 0 nor NaN, else the last.
compareCards(a, b) ==
  LET byRarity == minus(RARITY_ORDER(toLowerCase(b.rarity)),
                        RARITY_ORDER(toLowerCase(a.rarity)))
      byCondition == minus(CONDITION_ORDER(toLowerCase(a.condition)),
                           CONDITION_ORDER(toLowerCase(b.condition)))
      byGroup == localeCompare(a.group, b.group)
  IN IF byRarity # 0 THEN byRarity
     ELSE IF byCondition # 0 THEN byCondition
     ELSE IF byGroup # 0 THEN byGroup
     ELSE localeCompare(a.name, b.name)

\* The comparator is consistent on the cards (ECMAScript, Array.prototype.sort):
\* exactly one of <, =, > holds of each pair, and each is transitive.
sign(n) == IF n < 0 THEN -1 ELSE IF n > 0 THEN 1 ELSE 0

consistentComparator(cards) ==
  LET S == {cards[i] : i \in 1..Len(cards)}
      c(a, b) == sign(compareCards(a, b))
  IN /\ \A a \in S, b \in S : c(a, b) = -c(b, a)
     /\ \A a \in S, b \in S, d \in S :
          (c(a, b) = c(b, d) /\ c(a, b) # 0) => c(a, d) = c(a, b)
     /\ \A a \in S, b \in S, d \in S :
          (c(a, b) = 0 /\ c(b, d) = 0) => c(a, d) = 0

\* The stable sort of the cards under a consistent comparator.
insertSorted(sorted, x) ==
  LET k == Cardinality({i \in 1..Len(sorted) : compareCards(sorted[i], x) <= 0})
  IN SubSeq(sorted, 1, k) \o <<x>> \o SubSeq(sorted, k + 1, Len(sorted))

RECURSIVE stableSort(_)
stableSort(cards) ==
  IF cards = <<>> THEN <<>>
  ELSE insertSorted(stableSort(SubSeq(cards, 1, Len(cards) - 1)), cards[Len(cards)])

permutations(cards) ==
  LET n == Len(cards)
  IN {[i \in 1..n |-> cards[p[i]]] :
        p \in {q \in [1..n -> 1..n] : \A i, j \in 1..n : q[i] = q[j] => i = j}}

\* sortCards(cards): every array [...cards].sort(comparator) may be. The sort
\* is stable; with a comparator that is not consistent the order is left to
\* the implementation.
sortCards(cards) ==
  IF consistentComparator(cards) THEN {stableSort(cards)}
  ELSE permutations(cards)

\* searchAliases.expandAll(terms): each term followed by its synonyms, in
\* the order met. The table maps the term "m" to "mythic".
synonyms(term) == IF term = <<"m">> THEN <<Mythic>> ELSE <<>>

RECURSIVE expandAll(_)
expandAll(terms) ==
  IF terms = <<>> THEN <<>>
  ELSE <<terms[1]>> \o synonyms(terms[1]) \o expandAll(Tail(terms))

\* processCards(cards, options): the arrays it may return, as
\* [threw |-> FALSE, cards |-> ...], or [threw |-> TRUE, ...] when a filter
\* callback throws.
processCards(cards, opts) ==
  LET valid == filterSeq(cards, [i \in 1..Len(cards) |-> isValidCard(cards[i])])
      searchTerms == expandAll(opts.searchTerms)
      excludeTerms == expandAll(opts.excludeTerms)
      inc == [i \in 1..Len(valid) |-> matchesEvery(valid[i], searchTerms)]
      included == filterSeq(valid, [i \in 1..Len(valid) |-> inc[i] = "true"])
      exc == [i \in 1..Len(included) |-> matchesSearch(included[i], excludeTerms)]
      remaining == filterSeq(included,
                             [i \in 1..Len(included) |-> exc[i] = "false"])
      duplicates == findDuplicates(remaining)
      filtered == IF opts.showDuplicates
                  THEN filterSeq(remaining, [i \in 1..Len(remaining) |->
                                               hasDuplicate(duplicates, remaining[i])])
                  ELSE remaining
  IN IF \E i \in 1..Len(valid) : inc[i] = "throw"
     THEN {[threw |-> TRUE, cards |-> <<>>]}
     ELSE IF \E i \in 1..Len(included) : exc[i] = "throw"
     THEN {[threw |-> TRUE, cards |-> <<>>]}
     ELSE {[threw |-> FALSE, cards |-> s] : s \in sortCards(filtered)}

\* ------------------------------------------------------------ query inputs
Card(name, group, rarity, condition, cardCode, imageURL) ==
  [name |-> name, group |-> group, rarity |-> rarity, condition |-> condition,
   cardCode |-> cardCode, imageURL |-> imageURL]

\* The records a fetch may return. Two of one rarity and condition whose
\* groups differ in case only and that share an image; a mythic one in bad
\* condition; one whose rarity is no key of RARITY_ORDER; a standard one whose
\* image URL is the string "undefined"; one without cardCode and imageURL;
\* one without name.
Catalog ==
  { Card(<<"b">>, <<"a">>, Mythic, Pristine, <<"x", "1">>, <<"i">>),
    Card(<<"a">>, <<"A">>, Mythic, Pristine, <<"x", "2">>, <<"i">>),
    Card(<<"a">>, <<"b">>, Mythic, Damaged, <<"x", "3">>, <<"j">>),
    Card(<<"a">>, <<"b">>, <<"r", "a", "r", "e">>, Mint, <<"x", "4">>, <<"k">>),
    Card(<<"b">>, <<"b">>, Standard, Pristine, <<"x", "5">>, Undefined),
    [name |-> <<"a">>, group |-> <<"a">>, rarity |-> Unique, condition |-> Good],
    [group |-> <<"a">>, rarity |-> Mythic, condition |-> Pristine,
     cardCode |-> <<"x", "7">>, imageURL |-> <<"i">>] }

RecordSets == UNION {[1..n -> Catalog] : n \in 0..MaxRecords}

\* options.searchTerms and options.excludeTerms: parseArguments lower-cases
\* each token.
TermLists == {<<>>, << <<"a">> >>, << <<"x">> >>, << <<"m">> >>}

OptionSets ==
  [searchTerms : TermLists, excludeTerms : TermLists, showDuplicates : BOOLEAN]

\* execute from fetchUserCards' answer to the first render: no records, a
\* query that throws (the catch), or the result set that is rendered.
executeOutcomes(cards, opts) ==
  IF Len(cards) = 0 THEN {[outcome |-> "no_cards", cards |-> <<>>]}
  ELSE {IF r.threw THEN [outcome |-> "query_failed", cards |-> <<>>]
        ELSE [outcome |-> "render_sent", cards |-> r.cards] :
          r \in processCards(cards, opts)}

QueryInit ==
  /\ NoSessions
  /\ records \in RecordSets
  /\ options \in OptionSets
  /\ result = NoResult

ExecuteQuery ==
  /\ result = NoResult
  /\ \E r \in executeOutcomes(records, options) : result' = r
  /\ UNCHANGED <<records, options>>
  /\ UNCHANGED <<activeCollectors, listeners, timers, sessions, messages,
                 pending, invocations, fate, elapsed, last, out>>

QueryNext == ExecuteQuery

QuerySpec == QueryInit /\ [][QueryNext]_vars


(***************************************************************************)
(* Properties                                                              *)
(***************************************************************************)
SessionIds == 1..Len(sessions)

\* The handlers subscribed, and the timers pending, for message m.
HandlersOf(m) == {s \in listeners : sessions[s].msg = m}
TimersOf(m) == {s \in DOMAIN timers : sessions[s].msg = m}

\* The registry entries that hold session s's handler or timer.
EntriesOf(s, map) ==
  {k \in DOMAIN map : map[k].handler = s \/ map[k].timeout = s}

\* How many invocations of session s's handler are suspended in bag B.
InvocationsOf(s, B) ==
  Cardinality({c \in BagToSet(B) \X (1..BagCardinality(B)) :
                 c[1].session = s /\ c[2] <= CopiesIn(c[1], B)})

\* The requests with which a handler takes up an event.
TakesUp == {"defer", "editParent"}

\* The step taken is the dispatch of an event for message m from member.
DispatchStep(m, member) ==
  last'.op = "dispatch" /\ last'.msg = m /\ last'.member = member

\* C1: in every reachable state each message identity has at most one handler
\* subscribed to the event source and at most one pending expiry timer.
C1_OneHandlerOneTimerPerMessage ==
  \A s \in SessionIds :
    /\ Cardinality(HandlersOf(sessions[s].msg)) <= 1
    /\ Cardinality(TimersOf(sessions[s].msg)) <= 1

\* A second session was registered for a message whose first session was
\* active, and the second is subscribed with its timer pending.
C1_Witness ==
  \E s1 \in SessionIds, s2 \in SessionIds :
    /\ s1 # s2 /\ sessions[s1].msg = sessions[s2].msg
    /\ fate[s1] = "replaced"
    /\ s2 \in listeners /\ s2 \in DOMAIN timers

\* C2: once a session h1 was replaced by a registration for its message, h1
\* is never subscribed again and takes up no further event (no new invocation,
\* no defer or re-render request of its own), and its timer is never pending
\* and never fires again, so it neither removes the new entry, nor detaches
\* the new handler, nor asks to clear the controls.
C2_ReplacedHandlerIsInert ==
  [][ /\ \A s \in 1..Len(sessions') :
           fate'[s] = "replaced" =>
             /\ s \notin listeners'
             /\ s \notin DOMAIN timers'
             /\ EntriesOf(s, activeCollectors') = {}
      /\ \A s \in SessionIds :
           fate[s] = "replaced" =>
             /\ fate'[s] = "replaced"
             /\ InvocationsOf(s, invocations') <= InvocationsOf(s, invocations)
             /\ \A e \in out' :
                  e.session = s => e.kind \notin TakesUp \cup {"clearControls"}
             /\ ~(last'.op = "timer_fired" /\ last'.session = s)
             /\ (activeCollectors' # activeCollectors \/ listeners' # listeners)
                  => last'.session # s
    ]_vars

\* An event for the message, from the owner of the replaced session, was
\* dispatched after the replacement, while the new session is active.
C2_Witness ==
  \E s1 \in SessionIds, s2 \in SessionIds :
    /\ fate[s1] = "replaced" /\ fate[s2] = "active"
    /\ sessions[s1].msg = sessions[s2].msg
    /\ last.op = "dispatch"
    /\ last.msg = sessions[s1].msg /\ last.member = sessions[s1].author

\* C3: once a session's timer has fired the session stays expired: its entry
\* is gone, its handler is detached and its timer is not pending, it takes up
\* no event dispatched afterwards, and while no other session is registered
\* for its message an event for that message (any user, any action) changes
\* no page and sends no request at all.
C3_ExpiryIsTerminal ==
  [][ /\ \A s \in 1..Len(sessions') :
           fate'[s] = "expired" =>
             /\ s \notin listeners'
             /\ s \notin DOMAIN timers'
             /\ EntriesOf(s, activeCollectors') = {}
      /\ \A s \in SessionIds :
           fate[s] = "expired" =>
             /\ fate'[s] = "expired"
             /\ InvocationsOf(s, invocations') <= InvocationsOf(s, invocations)
             /\ \A e \in out' : e.session = s => e.kind \notin TakesUp
             /\ \A member \in Members :
                  ( /\ DispatchStep(sessions[s].msg, member)
                    /\ sessions[s].msg \notin DOMAIN activeCollectors )
                  => /\ messages' = messages
                     /\ invocations' = invocations
                     /\ out' = {}
    ]_vars

\* An event for the message of an expired session, from its owner, was
\* dispatched after the expiry, with no other session registered for it.
C3_Witness ==
  \E s \in SessionIds :
    /\ fate[s] = "expired"
    /\ sessions[s].msg \notin DOMAIN activeCollectors
    /\ last.op = "dispatch"
    /\ last.msg = sessions[s].msg /\ last.member = sessions[s].author

\* C4: a session's expiry time is fixed when it is registered: while it is
\* active its timer is pending and the time the timer has run plus the time
\* it has left is COLLECTOR_TIMEOUT, whatever events the session handled, and
\* a session that expired did so COLLECTOR_TIMEOUT after its registration.
C4_ExpiryTimeIsFixed ==
  \A s \in SessionIds :
    /\ fate[s] = "active" =>
         /\ s \in DOMAIN timers
         /\ elapsed[s] + timers[s] = COLLECTOR_TIMEOUT
    /\ fate[s] = "expired" => elapsed[s] = COLLECTOR_TIMEOUT

\* A session's timer fired while an invocation of its handler, taken up
\* before the expiry, is still suspended.
C4_Witness ==
  \E s \in SessionIds :
    /\ last.op = "timer_fired" /\ last.session = s
    /\ InvocationsOf(s, invocations) > 0

\* max(1, ceil(n / PAGE_SIZE)), written without the code's operators.
ExpectedTotalPages(n) == IF n = 0 THEN 1 ELSE ((n - 1) \div PAGE_SIZE) + 1

\* The result-set sizes C5 is checked for: every multiple of PAGE_SIZE up to
\* MaxPages pages, and one item more.
ResultSizes == {k * PAGE_SIZE + d : k \in 0..MaxPages, d \in {0, 1}}

\* The requested pages C5 is checked for: negative, zero, in range, above.
RequestedPages == (-(MaxPages + 1))..(MaxPages + 1)

\* C5: every PaginationState the program computes has totalPages =
\* max(1, ceil(items / PAGE_SIZE)) >= 1 and 1 <= currentPage <= totalPages:
\* that of every first render awaiting the transport, of every message
\* rendered, of every re-render requested by a navigation event, and that of
\* calculatePagination for the result-set sizes at the page boundaries and
\* every requested page from -(MaxPages + 1) to MaxPages + 1.
C5_PaginationInRange ==
  /\ \A r \in BagToSet(pending) :
       /\ r.text.total = ExpectedTotalPages(r.cards)
       /\ 1 <= r.text.page /\ r.text.page <= r.text.total
  /\ \A m \in DOMAIN messages :
       /\ messages[m].text.total >= 1
       /\ 1 <= messages[m].text.page
       /\ messages[m].text.page <= messages[m].text.total
       /\ \E s \in SessionIds :
            /\ sessions[s].msg = m
            /\ messages[m].text.total = ExpectedTotalPages(sessions[s].cards)
  /\ \A i \in BagToSet(invocations) :
       i.pc = "editParent" =>
         /\ 1 <= i.page
         /\ i.page <= ExpectedTotalPages(sessions[i.session].cards)
  /\ \A s \in SessionIds, action \in Actions \ {"code_catalog"},
        m \in DOMAIN messages :
       LET newPage == calculateNewPage(action, Snapshot(m), sessions[s].cards)
           pagination == calculatePagination(sessions[s].cards, newPage)
       IN /\ pagination.totalPages = ExpectedTotalPages(sessions[s].cards)
          /\ 1 <= pagination.currentPage
          /\ pagination.currentPage <= pagination.totalPages
  /\ \A n \in ResultSizes, page \in RequestedPages :
       LET pagination == calculatePagination(n, page)
       IN /\ pagination.totalPages = ExpectedTotalPages(n)
          /\ 1 <= pagination.currentPage
          /\ pagination.currentPage <= pagination.totalPages

\* A navigation event was taken up by a session whose result set is empty
\* (calculateNewPage works with zero pages there), while a message rendered
\* from a result set of several pages shows its last page.
C5_Witness ==
  /\ \E i \in BagToSet(invocations) :
       i.pc = "editParent" /\ sessions[i.session].cards = 0
  /\ \E m \in DOMAIN messages :
       messages[m].text.total > 1
       /\ messages[m].text.page = messages[m].text.total

\* C6: an event that names another message than the session's, or comes from
\* another identity than the session's owner, is ignored by that session's
\* handler: no invocation of it is left suspended, it sends no request, and
\* the pages shown, the registry entries, the subscriptions and the timers
\* are as before.
C6_UnauthorizedIsIgnored ==
  [][ \A s \in listeners, m \in (DOMAIN messages) \cup {NoMessage},
         member \in Members :
        ( /\ DispatchStep(m, member)
          /\ (m # sessions[s].msg \/ member # sessions[s].author) )
        => /\ InvocationsOf(s, invocations') = InvocationsOf(s, invocations)
           /\ \A e \in out' : e.session # s
           /\ messages' = messages
           /\ activeCollectors' = activeCollectors
           /\ listeners' = listeners
           /\ timers' = timers
    ]_vars

\* An event for an active session's message was dispatched from an identity
\* that is not the session's owner.
C6_Witness ==
  \E s \in listeners :
    /\ last.op = "dispatch"
    /\ last.msg = sessions[s].msg
    /\ last.member # sessions[s].author

\* C7: an authorized event whose action identifier is not one of first,
\* prev, next, last or the code-catalog action is a no-op: it leaves no
\* invocation suspended, sends no request (no re-render, no response) and
\* changes no session state.
C7_UnknownActionIsNoOp ==
  [][ \A s \in listeners :
        ( /\ DispatchStep(sessions[s].msg, sessions[s].author)
          /\ Dispatch(sessions[s].msg, sessions[s].author, "other") )
        => /\ out' = {}
           /\ invocations' = invocations
           /\ messages' = messages
           /\ activeCollectors' = activeCollectors
           /\ listeners' = listeners
           /\ timers' = timers
    ]_vars

\* C8: when the re-render of a navigation event is rejected, the page shown,
\* the session's closure, its subscription, the registry entries and the
\* timers are as before; the handler sends the one notice to the requester
\* and returns; and the next event, whatever its action, would be answered
\* with the same request as before the failed one.
C8_FailedRerenderChangesNothing ==
  [][ \A s \in SessionIds :
        (last'.op = "edit_rejected" /\ last'.session = s)
        => /\ messages' = messages
           /\ sessions' = sessions
           /\ listeners' = listeners
           /\ activeCollectors' = activeCollectors
           /\ timers' = timers
           /\ out' = {Effect("notice", s, 0)}
           /\ InvocationsOf(s, invocations') = InvocationsOf(s, invocations) - 1
           /\ \A action \in Actions :
                HandlerRequest(s, sessions[s].author, action,
                               Snapshot(sessions[s].msg))'
                  = HandlerRequest(s, sessions[s].author, action,
                                   Snapshot(sessions[s].msg))
    ]_vars

\* The re-render of an active session's navigation event was rejected; the
\* session is still subscribed and registered and the notice is sent.
C8_Witness ==
  /\ last.op = "edit_rejected"
  /\ last.session \in listeners
  /\ EntriesOf(last.session, activeCollectors) # {}
  /\ out = {Effect("notice", last.session, 0)}

\* The outcomes of execute without a rendered result message.
FailedOutcomes ==
  {"registration_required", "user_not_found", "fetch_failed", "no_cards",
   "query_failed", "render_failed"}

\* C9: a session is registered only when its first render has succeeded: a
\* step of execute that ends with the owner not found, no cards, a failed
\* fetch or query or a failed first render, or that only sends the first
\* render, leaves the registry, the subscriptions and the timers as they
\* were; a step that adds an entry, a handler or a timer is the one in which
\* a first render resolves, for the message just rendered; and every handler
\* subscribed and every timer pending is that of a rendered message.
C9_RegisteredOnlyAfterFirstRender ==
  [][ /\ last'.op \in FailedOutcomes \cup {"render_sent"} =>
           /\ sessions' = sessions
           /\ activeCollectors' = activeCollectors
           /\ listeners' = listeners
           /\ timers' = timers
      /\ ( \/ Len(sessions') # Len(sessions)
           \/ ~(listeners' \subseteq listeners)
           \/ ~((DOMAIN timers') \subseteq DOMAIN timers)
           \/ \E k \in DOMAIN activeCollectors' :
                k \notin DOMAIN activeCollectors
                \/ activeCollectors'[k] # activeCollectors[k] )
         => /\ last'.op = "registered"
            /\ Len(sessions') = Len(sessions) + 1
            /\ sessions'[Len(sessions')].msg = last'.msg
            /\ last'.msg \in DOMAIN messages'
            /\ \E r \in BagToSet(pending) :
                 /\ pending' = pending (-) SetToBag({r})
                 /\ messages'[last'.msg].text = r.text
      /\ \A s \in listeners' \cup DOMAIN timers' :
           sessions'[s].msg \in DOMAIN messages'
      /\ \A k \in DOMAIN activeCollectors' :
           k \in DOMAIN messages' /\ sessions'[activeCollectors'[k].handler].msg = k
    ]_vars

\* The first render of an execute failed, and no entry, handler or timer
\* exists.
C9_Witness ==
  /\ last.op = "render_failed"
  /\ sessions = <<>>
  /\ listeners = {}
  /\ DOMAIN timers = {}
  /\ DOMAIN activeCollectors = {}

\* Session s is in the registry or its handler is subscribed.
Registered(s) ==
  s \in SessionIds /\ (s \in listeners \/ EntriesOf(s, activeCollectors) # {})

\* Session s was registered and is neither in the registry nor subscribed.
Removed(s) ==
  s \in SessionIds /\ s \notin listeners /\ EntriesOf(s, activeCollectors) = {}

\* C10: every registered session is eventually out of the registry with its
\* handler detached (by its timer firing or by replacement), whatever events
\* follow, given that time passes and a due timer fires.
C10_EverySessionIsRemoved ==
  \A s \in 1..MaxSessions : Registered(s) ~> Removed(s)

\* One session was removed by replacement and another by its timer.
C10_Witness ==
  \E s1 \in SessionIds, s2 \in SessionIds :
    /\ fate[s1] = "replaced" /\ fate[s2] = "expired"
    /\ Removed(s1) /\ Removed(s2)

\* The query of the call has run: execute has its outcome.
QueryDone == result # NoResult

\* The positions of the result set.
ResultIndex == 1..Len(result.cards)

\* C11: processCards raises no error for any fetched record set and any
\* options: records that are malformed (no code, no image key, a rarity or
\* condition outside the closed sets) lead to a returned, possibly empty,
\* result set, with or without include and exclude terms; so the query of
\* execute never ends in the catch.
C11_QueryNeverFails ==
  QueryDone => result.outcome \in {"no_cards", "render_sent"}

\* The closed rarity set, as sortCards ranks it (the rarity in lower case).
KnownRarity(card) == RARITY_ORDER(toLowerCase(card.rarity)) # 0

\* C12: an item whose rarity is no member of the closed rarity set {mythic,
\* glyph, unique, standard} is rejected by validation: it is in no query
\* result, and so sort never has to rank it.
C12_UnknownRarityIsRejected ==
  QueryDone => \A i \in ResultIndex : KnownRarity(result.cards[i])

\* The key of C13 between two items whose rarity and condition are in the
\* closed sets: negative when a comes first, 0 when the key does not tell.
Ranked(card) ==
  /\ RARITY_ORDER(toLowerCase(card.rarity)) # 0
  /\ CONDITION_ORDER(toLowerCase(card.condition)) # 0

KeyCompare(a, b) ==
  LET byRarity == RARITY_ORDER(toLowerCase(b.rarity))
                    - RARITY_ORDER(toLowerCase(a.rarity))
      byCondition == CONDITION_ORDER(toLowerCase(a.condition))
                       - CONDITION_ORDER(toLowerCase(b.condition))
      byGroup == compareSeq([i \in 1..Len(a.group) |-> letterOf(a.group[i])],
                            [i \in 1..Len(b.group) |-> letterOf(b.group[i])])
      byName == compareSeq([i \in 1..Len(a.name) |-> letterOf(a.name[i])],
                           [i \in 1..Len(b.name) |-> letterOf(b.name[i])])
  IN IF byRarity # 0 THEN byRarity
     ELSE IF byCondition # 0 THEN byCondition
     ELSE IF byGroup # 0 THEN byGroup
     ELSE byName

\* The valid records of the fetch, in the order fetched.
ValidRecords ==
  filterSeq(records, [i \in 1..Len(records) |-> isValidCard(records[i])])

\* C13: the output of sort is a permutation of its input in which every item
\* precedes every later item under the key: rarity rank descending, then
\* condition rank ascending, then group ascending whatever the case of its
\* letters, then name ascending whatever the case; so two items whose groups
\* differ in case only are in the order of their names, and sorting the
\* output again changes nothing.
C13_SortedByKey ==
  (QueryDone /\ result.outcome = "render_sent") =>
    /\ \A i \in ResultIndex, j \in ResultIndex :
         (i < j /\ Ranked(result.cards[i]) /\ Ranked(result.cards[j]))
           => KeyCompare(result.cards[i], result.cards[j]) <= 0
    /\ options = NoOptions => result.cards \in permutations(ValidRecords)
    /\ sortCards(result.cards) = {result.cards}

\* The term is a substring, whatever the case of the field's letters, of one
\* of the item's name, group, rarity, condition and code.
FieldHit(card, term) ==
  \E i \in 1..Len(SearchFields) :
    /\ has(card, SearchFields[i])
    /\ includes(toLowerCase(card[SearchFields[i]]), term)

\* The item passes the include and exclude terms as C14 reads them.
Passes(card, opts) ==
  LET inc == expandAll(opts.searchTerms)
      exc == expandAll(opts.excludeTerms)
  IN /\ \A i \in 1..Len(inc) : FieldHit(card, inc[i])
     /\ \A i \in 1..Len(exc) : ~FieldHit(card, exc[i])

\* C14: with the duplicates-only flag off the query has a result, and a valid
\* item is in it iff every expanded include term is a substring (whatever the
\* case) of one of its name, group, rarity, condition or code and no expanded
\* exclude term is; an item matching an include and an exclude term is left
\* out, no include terms keep all valid items, no exclude terms drop none.
C14_IncludeAndExclude ==
  (QueryDone /\ ~options.showDuplicates /\ records # <<>>) =>
    /\ result.outcome = "render_sent"
    /\ \A i \in 1..Len(ValidRecords) :
         (\E j \in ResultIndex : result.cards[j] = ValidRecords[i])
           <=> Passes(ValidRecords[i], options)

\* The valid records that pass the include and exclude terms, in the order
\* fetched: the filtered set the duplicates-only flag works on.
FilteredRecords ==
  filterSeq(ValidRecords,
            [i \in 1..Len(ValidRecords) |-> Passes(ValidRecords[i], options)])

\* How many items of the filtered set have the image key of this item (none
\* when the item has no image key).
KeyCount(card) ==
  Cardinality({i \in 1..Len(FilteredRecords) :
                 /\ has(card, "imageURL")
                 /\ has(FilteredRecords[i], "imageURL")
                 /\ FilteredRecords[i].imageURL = card.imageURL})

\* C15: with the duplicates-only flag set, an item of the include/exclude
\* filtered set is returned iff its image key occurs at least twice in that
\* filtered set (not in the whole collection): an item whose image key is
\* unique there is never returned, an item that shares its image key with
\* another filtered item always is.
C15_DuplicatesOfFilteredSet ==
  (QueryDone /\ options.showDuplicates /\ result.outcome = "render_sent") =>
    \A i \in 1..Len(FilteredRecords) :
      (\E j \in ResultIndex : result.cards[j] = FilteredRecords[i])
        <=> KeyCount(FilteredRecords[i]) >= 2

\* C16: when the target owner resolves but owns no valid item (no records at
\* all, or only records without name, group, rarity or condition), execute
\* reports the not-found outcome as a plain message and sends no first render
\* (so no session is registered); an owner who has valid items never gets
\* that outcome, whatever the filters leave.
C16_NoValidItemsIsNotFound ==
  QueryDone =>
    /\ ValidRecords = <<>> => result.outcome = "no_cards"
    /\ ValidRecords # <<>> => result.outcome # "no_cards"

\* C17: at most one invocation of a session's handler is in progress at any
\* time: no event is taken up for a session while an earlier invocation of
\* its handler is suspended at an await, so no two navigation events are
\* computed from the same rendered page.
C17_OneInvocationPerSession ==
  \A s \in SessionIds : InvocationsOf(s, invocations) <= 1

\* C18: the code-catalog event of a session's owner is answered with the
\* private response that lists the codes of the page the message shows
\* (positions (currentPage - 1) * PAGE_SIZE up to currentPage * PAGE_SIZE of
\* the result set), and neither taking the event up nor answering it changes
\* the page shown, the result set, the registry entry, the subscription or
\* the timer.
C18_CodeCatalogOfRenderedPage ==
  [][ \A s \in SessionIds :
        /\ ( /\ DispatchStep(sessions[s].msg, sessions[s].author)
             /\ \E e \in out' : e.session = s /\ e.kind = "defer" )
           => /\ messages' = messages
              /\ registry' = registry
        /\ (last'.op = "defer_resolved" /\ last'.session = s)
           => /\ out' = {Effect("createFollowup", s,
                                messages[sessions[s].msg].text.page)}
              /\ messages' = messages
              /\ registry' = registry
    ]_vars

\* C20: once a session's timer has fired, the session sends no further
\* request for its message or to a requester: no re-render, no private
\* code-catalog response, no error notice, also not from an invocation of its
\* handler that was suspended at an await when the timer fired.
C20_ExpiredSessionIsSilent ==
  [][ \A s \in SessionIds :
        fate[s] = "expired" => \A e \in out' : e.session # s
    ]_vars

\* C19: in every state between two callbacks the registry and the event
\* source agree: a handler is subscribed iff it is the handler of the
\* registry entry of its message, and the timer of that entry is pending; no
\* handler is subscribed without an entry and no entry is without its
\* subscribed handler.
C19_RegistryAgreesWithEventSource ==
  /\ \A s \in listeners :
       /\ sessions[s].msg \in DOMAIN activeCollectors
       /\ activeCollectors[sessions[s].msg].handler = s
  /\ \A k \in DOMAIN activeCollectors :
       /\ activeCollectors[k].handler \in listeners
       /\ sessions[activeCollectors[k].handler].msg = k
       /\ activeCollectors[k].timeout \in DOMAIN timers
       /\ activeCollectors[k].timeout = activeCollectors[k].handler

\* The timer of one session has just fired while another session, for
\* another message, is registered and subscribed.
C19_Witness ==
  /\ last.op = "timer_fired"
  /\ \E s \in listeners :
       /\ sessions[s].msg # last.msg
       /\ sessions[s].msg \in DOMAIN activeCollectors

====
